---- MODULE Spec2Model ----
(***************************************************************************)
(* Model of scripts/apply_agentation_motion.py: the emitter that reads the  *)
(* packaged CSS asset and prints it or writes it to a file.                 *)
(*                                                                          *)
(* Invocations of main() are processes that share one filesystem.  Every    *)
(* system call main() makes (stat, open, read, mkdir, write) is one atomic  *)
(* step, so that two invocations interleave as two OS processes do.         *)
(* Filesystem paths are sequences of names below the root << >>.  File      *)
(* contents are sequences of bytes, text is a sequence of characters.       *)
(***************************************************************************)
EXTENDS Integers, Sequences, FiniteSets, TLC

\* ------------------------------------------------------------------ bounds
\* Longest asset content (in bytes) the environment is given.
MaxLen == 2

\* ------------------------------------------------------------ bytes, text
\* Bytes an asset may hold: CR, LF and the two bytes of U+00E9 in UTF-8.  A
\* C3 not followed by A9, or an A9 on its own, is not valid UTF-8.
Bytes == {"0D", "0A", "C3", "A9"}

RECURSIVE SeqsUpTo(_, _)
SeqsUpTo(S, n) ==
    IF n = 0 THEN {<<>>}
    ELSE LET shorter == SeqsUpTo(S, n - 1)
         IN  shorter \cup {Append(s, x) : s \in {t \in shorter : Len(t) = n - 1}, x \in S}

Contents == SeqsUpTo(Bytes, MaxLen)

\* What a destination file holds when it exists before any run.
OldContent == <<"C3", "A9", "0A", "C3", "A9", "0A">>

\* bytes.decode("utf-8"), strict: the text, or the marker "invalid".
RECURSIVE Utf8Valid(_)
Utf8Valid(b) ==
    IF b = <<>> THEN TRUE
    ELSE IF b[1] \in {"0D", "0A"} THEN Utf8Valid(Tail(b))
    ELSE IF b[1] = "C3" /\ Len(b) >= 2 /\ b[2] = "A9" THEN Utf8Valid(Tail(Tail(b)))
    ELSE FALSE

RECURSIVE Utf8Decode(_)
Utf8Decode(b) ==
    IF b = <<>> THEN <<>>
    ELSE IF b[1] = "0D" THEN <<"CR">> \o Utf8Decode(Tail(b))
    ELSE IF b[1] = "0A" THEN <<"LF">> \o Utf8Decode(Tail(b))
    ELSE <<"e-acute">> \o Utf8Decode(Tail(Tail(b)))

\* str.encode("utf-8")
RECURSIVE Utf8Encode(_)
Utf8Encode(t) ==
    IF t = <<>> THEN <<>>
    ELSE (CASE t[1] = "CR" -> <<"0D">>
            [] t[1] = "LF" -> <<"0A">>
            [] OTHER       -> <<"C3", "A9">>) \o Utf8Encode(Tail(t))

\* Reading in text mode with newline=None: "\r\n" and "\r" become "\n".
RECURSIVE UniversalNewlines(_)
UniversalNewlines(t) ==
    IF t = <<>> THEN <<>>
    ELSE IF t[1] = "CR" /\ Len(t) >= 2 /\ t[2] = "LF"
         THEN <<"LF">> \o UniversalNewlines(Tail(Tail(t)))
    ELSE IF t[1] = "CR" THEN <<"LF">> \o UniversalNewlines(Tail(t))
    ELSE <<t[1]>> \o UniversalNewlines(Tail(t))

\* os.linesep of the platform the script is written for (#!/usr/bin/env).
linesep == <<"LF">>

\* Writing in text mode with newline=None: "\n" becomes os.linesep.
RECURSIVE WriteNewlines(_)
WriteNewlines(t) ==
    IF t = <<>> THEN <<>>
    ELSE (IF t[1] = "LF" THEN linesep ELSE <<t[1]>>) \o WriteNewlines(Tail(t))

\* Path.read_text(encoding="utf-8") applied to the bytes of a file.
ReadText(b) == UniversalNewlines(Utf8Decode(b))

\* The bytes a text-mode UTF-8 stream emits for the string css.
TextBytes(css) == Utf8Encode(WriteNewlines(css))

\* --------------------------------------------------------------- pathlib
\* A command-line string is a sequence of tokens: names, "/", "." and "-".
\* Path(s): whether s is absolute, and its parts without separators and ".".
Path(s) ==
    [abs   |-> s # <<>> /\ s[1] = "/",
     parts |-> SelectSeq(s, LAMBDA t : t \notin {"/", "."})]

\* Path.parent: the parent of "." is "." and the parent of "/" is "/".
PathParent(p) ==
    [abs   |-> p.abs,
     parts |-> IF p.parts = <<>> THEN <<>> ELSE SubSeq(p.parts, 1, Len(p.parts) - 1)]

\* p / name
PathJoin(p, name) == [abs |-> p.abs, parts |-> Append(p.parts, name)]

\* The location the operating system gives a path in working directory wd.
Abs(p, wd) == IF p.abs THEN p.parts ELSE wd \o p.parts

\* Path.resolve(): the absolute path (the model has no symlinks or "..").
PathResolve(p, wd) == [abs |-> TRUE, parts |-> Abs(p, wd)]

\* The asset looked up relative to the working directory.
AssetPathOfMut(f, wd) == PathJoin(PathJoin(Path(<<".">>), "assets"), "agentation-motion.css")

\* Line 22: Path(__file__).resolve().parent.parent / "assets" / "agentation-motion.css"
AssetPathOf(f, wd) ==
    PathJoin(PathJoin(PathParent(PathParent(PathResolve(f, wd))), "assets"),
             "agentation-motion.css")

\* ------------------------------------------------------------ filesystem
\* A filesystem maps each existing location to a directory or a file.
DirNode == [kind |-> "dir"]
FileNode(b) == [kind |-> "file", data |-> b]

IsDir(f, ap) == ap \in DOMAIN f /\ f[ap].kind = "dir"
IsFile(f, ap) == ap \in DOMAIN f /\ f[ap].kind = "file"

Prefix(ap, k) == SubSeq(ap, 1, k)
ProperPrefixes(ap) == {Prefix(ap, k) : k \in 0..(Len(ap) - 1)}

\* The error of walking to the directory that holds ap: "ENOENT" when a
\* component is missing, "ENOTDIR" when one is a file, "OK" otherwise.
WalkErr(f, ap) ==
    LET bad == {k \in 0..(Len(ap) - 1) : ~IsDir(f, Prefix(ap, k))}
    IN  IF bad = {} THEN "OK"
        ELSE LET k == CHOOSE i \in bad : \A j \in bad : i <= j
             IN  IF Prefix(ap, k) \in DOMAIN f THEN "ENOTDIR" ELSE "ENOENT"

\* The existence check left out.
PathExistsMut(f, ap) == TRUE

\* Path.exists(): stat() succeeded.
PathExists(f, ap) == WalkErr(f, ap) = "OK" /\ ap \in DOMAIN f

\* mkdir(2)
OsMkdir(f, ap) ==
    IF WalkErr(f, ap) # "OK" THEN WalkErr(f, ap)
    ELSE IF ap \in DOMAIN f THEN "EEXIST"
    ELSE "OK"

\* open(2) for reading
OsOpenRead(f, ap) ==
    IF WalkErr(f, ap) # "OK" THEN WalkErr(f, ap)
    ELSE IF ap \notin DOMAIN f THEN "ENOENT"
    ELSE IF f[ap].kind = "dir" THEN "EISDIR"
    ELSE "OK"

\* Exclusive creation (mode "x"): an existing file is an error.
OsOpenWriteMut(f, ap) ==
    IF WalkErr(f, ap) # "OK" THEN WalkErr(f, ap)
    ELSE IF IsDir(f, ap) THEN "EISDIR"
    ELSE IF ap \in DOMAIN f THEN "EEXIST"
    ELSE "OK"

\* open(2) with O_WRONLY | O_CREAT | O_TRUNC
OsOpenWrite(f, ap) ==
    IF WalkErr(f, ap) # "OK" THEN WalkErr(f, ap)
    ELSE IF IsDir(f, ap) THEN "EISDIR"
    ELSE "OK"

Put(f, ap, node) == [q \in DOMAIN f \cup {ap} |-> IF q = ap THEN node ELSE f[q]]

\* write(2) of b at offset 0 of a descriptor that was opened with O_TRUNC:
\* bytes another writer put beyond Len(b) in the meantime stay.
WriteAt0(old, b) ==
    IF Len(old) > Len(b) THEN b \o SubSeq(old, Len(b) + 1, Len(old)) ELSE b

\* ------------------------------------------------------------ environment
Procs == {"p1", "p2"}

ScriptDir == <<"skill", "scripts">>
ScriptName == "apply_agentation_motion.py"
AssetsDir == <<"skill", "assets">>
AssetLoc == <<"skill", "assets", "agentation-motion.css">>

\* How the interpreter was started: the working directory and __file__.
Launches ==
    { [cwd |-> <<>>,        file |-> <<"skill", "/", "scripts", "/", ScriptName>>],
      [cwd |-> <<"skill">>, file |-> <<"scripts", "/", ScriptName>>],
      [cwd |-> <<"skill">>, file |-> <<"/", "skill", "/", "scripts", "/", ScriptName>>] }

\* Values given to --out.
OutValues ==
    { <<"-">>,
      <<".", "/", "-">>,
      <<"build", "/", "sub", "/", "out.css">>,
      <<"assets", "/", "agentation-motion.css">>,
      <<"assets">> }

\* sys.argv[1:]
ArgvChoices == {<<>>, << <<"--out">> >>} \cup {<< <<"--out">>, v >> : v \in OutValues}

\* What the packaged asset location holds before any run.
AssetStates == {[kind |-> "absent"], DirNode} \cup {FileNode(c) : c \in Contents}

\* What the working directory holds before any run.
PreStates == {"none", "oldfile", "buildfile"}

InitialFs(wd, a, pre) ==
    LET base == [q \in {<<>>, <<"skill">>, ScriptDir, AssetsDir} |-> DirNode]
        f1 == Put(base, Append(ScriptDir, ScriptName), FileNode(<<>>))
        f2 == IF a.kind = "absent" THEN f1 ELSE Put(f1, AssetLoc, a)
    IN  CASE pre = "none"      -> f2
          [] pre = "buildfile" -> Put(f2, wd \o <<"build">>, FileNode(OldContent))
          [] OTHER ->
               Put(Put(Put(f2, wd \o <<"build">>, DirNode),
                       wd \o <<"build", "sub">>, DirNode),
                   wd \o <<"build", "sub", "out.css">>, FileNode(OldContent))

\* ------------------------------------------------------------------ state
VARIABLES
    fs,          \* the filesystem
    cwd,         \* the working directory of the invocations
    file,        \* __file__
    argv,        \* argv[p]: the command line of invocation p
    pc,          \* pc[p]: where invocation p is in main()
    args_out,    \* args.out
    asset_path,  \* asset_path
    css,         \* css
    out_path,    \* out_path
    todo,        \* the pending calls of Path.mkdir, innermost last
    stdout,      \* bytes written to standard output
    stderr,      \* diagnostics written to the error stream
    status,      \* exit status, -1 while running
    outcome,     \* how the invocation ended
    trace,       \* the steps of main() taken so far
    made,        \* directories this invocation created
    wrote,       \* files this invocation opened for writing
    nreads,      \* number of times the asset was read
    startFs,     \* the filesystem when the invocation started
    after,       \* the filesystem when the invocation ended
    order,       \* the invocations in the order they ended
    lastWriter,  \* for each file, the invocation that changed it last
    fs0          \* the filesystem before any run

procVars == <<pc, args_out, asset_path, css, out_path, todo, stdout, stderr,
              status, outcome, trace, made, wrote, nreads, startFs, after, order>>
vars == <<fs, cwd, file, argv, procVars, lastWriter, fs0>>

NoPath == [abs |-> FALSE, parts |-> <<>>]

Init ==
    /\ \E l \in Launches, a \in AssetStates, pre \in PreStates :
          /\ cwd = l.cwd
          /\ file = l.file
          /\ fs = InitialFs(l.cwd, a, pre)
    /\ fs0 = fs
    /\ argv \in [Procs -> ArgvChoices]
    /\ pc = [p \in Procs |-> "start"]
    /\ args_out = [p \in Procs |-> <<>>]
    /\ asset_path = [p \in Procs |-> NoPath]
    /\ css = [p \in Procs |-> <<>>]
    /\ out_path = [p \in Procs |-> NoPath]
    /\ todo = [p \in Procs |-> <<>>]
    /\ stdout = [p \in Procs |-> <<>>]
    /\ stderr = [p \in Procs |-> <<>>]
    /\ status = [p \in Procs |-> -1]
    /\ outcome = [p \in Procs |-> "running"]
    /\ trace = [p \in Procs |-> <<>>]
    /\ made = [p \in Procs |-> {}]
    /\ wrote = [p \in Procs |-> {}]
    /\ nreads = [p \in Procs |-> 0]
    /\ startFs = [p \in Procs |-> fs]
    /\ after = [p \in Procs |-> fs]
    /\ order = <<>>
    /\ lastWriter = << >>

\* ---------------------------------------------------------------- main()
\* The invocation ends: SystemExit(st) with message msg on the error stream
\* (no message when msg is empty).
Exit(p, oc, st, msg) ==
    /\ pc' = [pc EXCEPT ![p] = "done"]
    /\ outcome' = [outcome EXCEPT ![p] = oc]
    /\ status' = [status EXCEPT ![p] = st]
    /\ stderr' = [stderr EXCEPT ![p] = @ \o msg]
    /\ trace' = [trace EXCEPT ![p] = Append(@, "exit")]
    /\ after' = [after EXCEPT ![p] = fs']
    /\ order' = Append(order, p)

\* A handler that swallows the exception: the run reports success.
RaiseMut(p, exc) == Exit(p, "CRASH", 0, <<[kind |-> "Traceback", exc |-> exc]>>)

\* An exception nothing catches: the interpreter prints the traceback and
\* exits with status 1.
Raise(p, exc) == Exit(p, "CRASH", 1, <<[kind |-> "Traceback", exc |-> exc]>>)

\* Lines 18-20: argparse with the single option --out, default "-".
ParseArgv(a) ==
    IF a = <<>> THEN [ok |-> TRUE, out |-> <<"-">>]
    ELSE IF Len(a) = 2 /\ a[1] = <<"--out">> THEN [ok |-> TRUE, out |-> a[2]]
    ELSE [ok |-> FALSE, out |-> <<>>]

ParseArgs(p) ==
    /\ pc[p] = "start"
    /\ startFs' = [startFs EXCEPT ![p] = fs]
    /\ UNCHANGED <<fs, cwd, file, argv, lastWriter, fs0>>
    /\ LET r == ParseArgv(argv[p])
       IN  IF r.ok
           THEN /\ args_out' = [args_out EXCEPT ![p] = r.out]
                /\ pc' = [pc EXCEPT ![p] = "resolve"]
                /\ trace' = [trace EXCEPT ![p] = Append(@, "parse")]
                /\ UNCHANGED <<asset_path, css, out_path, todo, stdout, stderr,
                               status, outcome, made, wrote, nreads, after, order>>
           ELSE /\ Exit(p, "USAGE", 2, <<[kind |-> "Usage"]>>)
                /\ UNCHANGED <<args_out, asset_path, css, out_path, todo, stdout,
                               made, wrote, nreads>>

\* Line 22
Resolve(p) ==
    /\ pc[p] = "resolve"
    /\ asset_path' = [asset_path EXCEPT ![p] = AssetPathOf(Path(file), cwd)]
    /\ pc' = [pc EXCEPT ![p] = "exists"]
    /\ trace' = [trace EXCEPT ![p] = Append(@, "resolve")]
    /\ UNCHANGED <<fs, cwd, file, argv, lastWriter, fs0, args_out, css, out_path,
                   todo, stdout, stderr, status, outcome, made, wrote, nreads,
                   startFs, after, order>>

\* The asset used without being read once it is known to exist.
CheckExistsMut(p) ==
    /\ pc[p] = "exists"
    /\ pc' = [pc EXCEPT ![p] = "emit"]
    /\ trace' = [trace EXCEPT ![p] = Append(@, "exists")]
    /\ UNCHANGED <<fs, cwd, file, argv, lastWriter, fs0, args_out, asset_path,
                   css, out_path, todo, stdout, made, wrote, nreads, startFs,
                   stderr, status, outcome, after, order>>

\* Lines 23-25
CheckExists(p) ==
    /\ pc[p] = "exists"
    /\ UNCHANGED <<fs, cwd, file, argv, lastWriter, fs0, args_out, asset_path,
                   css, out_path, todo, stdout, made, wrote, nreads, startFs>>
    /\ IF PathExists(fs, Abs(asset_path[p], cwd))
       THEN /\ pc' = [pc EXCEPT ![p] = "read"]
            /\ trace' = [trace EXCEPT ![p] = Append(@, "exists")]
            /\ UNCHANGED <<stderr, status, outcome, after, order>>
       ELSE /\ trace' = [trace EXCEPT ![p] = @ \o <<"exists", "exit">>]
            /\ pc' = [pc EXCEPT ![p] = "done"]
            /\ outcome' = [outcome EXCEPT ![p] = "ASSET_MISSING"]
            /\ status' = [status EXCEPT ![p] = 1]
            /\ stderr' = [stderr EXCEPT ![p] =
                              Append(@, [kind |-> "AssetNotFound", path |-> asset_path[p]])]
            /\ after' = [after EXCEPT ![p] = fs]
            /\ order' = Append(order, p)

\* Line 27
ReadAsset(p) ==
    /\ pc[p] = "read"
    /\ nreads' = [nreads EXCEPT ![p] = @ + 1]
    /\ UNCHANGED <<fs, cwd, file, argv, lastWriter, fs0, args_out, asset_path,
                   out_path, todo, stdout, made, wrote, startFs>>
    /\ LET ap == Abs(asset_path[p], cwd)
           e == OsOpenRead(fs, ap)
       IN  IF e # "OK"
           THEN /\ Raise(p, e)
                /\ UNCHANGED css
           ELSE IF ~Utf8Valid(fs[ap].data)
           THEN /\ Raise(p, "UnicodeDecodeError")
                /\ UNCHANGED css
           ELSE /\ css' = [css EXCEPT ![p] = ReadText(fs[ap].data)]
                /\ pc' = [pc EXCEPT ![p] = "emit"]
                /\ trace' = [trace EXCEPT ![p] = Append(@, "read")]
                /\ UNCHANGED <<stderr, status, outcome, after, order>>

\* The text printed whatever the destination is.
WriteStdoutMut(p) ==
    /\ pc[p] = "emit"
    /\ stdout' = [stdout EXCEPT ![p] = @ \o TextBytes(css[p])]
    /\ pc' = [pc EXCEPT ![p] = IF args_out[p] = <<"-">> THEN "ret" ELSE "emit"]
    /\ trace' = [trace EXCEPT ![p] = Append(@, "stdout")]
    /\ UNCHANGED <<fs, cwd, file, argv, lastWriter, fs0, args_out, asset_path, css,
                   out_path, todo, stderr, status, outcome, made, wrote, nreads,
                   startFs, after, order>>

\* Lines 29-30
WriteStdout(p) ==
    /\ pc[p] = "emit"
    /\ args_out[p] = <<"-">>
    /\ stdout' = [stdout EXCEPT ![p] = @ \o TextBytes(css[p])]
    /\ pc' = [pc EXCEPT ![p] = "ret"]
    /\ trace' = [trace EXCEPT ![p] = Append(@, "stdout")]
    /\ UNCHANGED <<fs, cwd, file, argv, lastWriter, fs0, args_out, asset_path, css,
                   out_path, todo, stderr, status, outcome, made, wrote, nreads,
                   startFs, after, order>>

\* Lines 33-34: out_path = Path(args.out), and the call of
\* out_path.parent.mkdir(parents=True, exist_ok=True).
CallMkdir(p) ==
    /\ pc[p] = "emit"
    /\ args_out[p] # <<"-">>
    /\ out_path' = [out_path EXCEPT ![p] = Path(args_out[p])]
    /\ todo' = [todo EXCEPT ![p] =
                   <<[path |-> PathParent(Path(args_out[p])), parents |-> TRUE]>>]
    /\ pc' = [pc EXCEPT ![p] = "mkdir"]
    /\ trace' = [trace EXCEPT ![p] = Append(@, "mkdir")]
    /\ UNCHANGED <<fs, cwd, file, argv, lastWriter, fs0, args_out, asset_path, css,
                   stdout, stderr, status, outcome, made, wrote, nreads,
                   startFs, after, order>>

\* Line 34, one mkdir(2) of Path.mkdir(parents, exist_ok=True):
\*   try: os.mkdir(self)
\*   except FileNotFoundError:
\*       if not parents or self.parent == self: raise
\*       self.parent.mkdir(parents=True, exist_ok=True)
\*       self.mkdir(parents=False, exist_ok=exist_ok)
\*   except OSError:
\*       if not exist_ok or not self.is_dir(): raise
\* MkdirRetries: the first handler creates the parents and tries again.
\* MkdirTolerates: the second handler accepts a directory that exists.
\* parents=False
MkdirRetriesMut(fr, e) == FALSE

MkdirRetries(fr, e) == e = "ENOENT" /\ fr.parents /\ fr.path.parts # <<>>

\* exist_ok=False
MkdirToleratesMut(f, ap, e) == FALSE

MkdirTolerates(f, ap, e) == e \in {"EEXIST", "ENOTDIR"} /\ IsDir(f, ap)

Mkdir(p) ==
    /\ pc[p] = "mkdir"
    /\ todo[p] # <<>>
    /\ UNCHANGED <<cwd, file, argv, lastWriter, fs0, args_out, asset_path, css,
                   out_path, stdout, wrote, nreads, startFs>>
    /\ LET n == Len(todo[p])
           fr == todo[p][n]
           ap == Abs(fr.path, cwd)
           e == OsMkdir(fs, ap)
           rest == SubSeq(todo[p], 1, n - 1)
           return == /\ todo' = [todo EXCEPT ![p] = rest]
                     /\ pc' = [pc EXCEPT ![p] = IF rest = <<>> THEN "open" ELSE "mkdir"]
                     /\ UNCHANGED <<stderr, status, outcome, trace, after, order>>
       IN  CASE e = "OK" ->
                  /\ fs' = Put(fs, ap, DirNode)
                  /\ made' = [made EXCEPT ![p] = @ \cup {ap}]
                  /\ return
             [] MkdirRetries(fr, e) ->
                  /\ todo' = [todo EXCEPT ![p] =
                                 rest \o <<[path |-> fr.path, parents |-> FALSE],
                                           [path |-> PathParent(fr.path), parents |-> TRUE]>>]
                  /\ UNCHANGED <<fs, made, pc, stderr, status, outcome, trace, after, order>>
             [] MkdirTolerates(fs, ap, e) ->
                  /\ UNCHANGED <<fs, made>>
                  /\ return
             [] OTHER ->
                  /\ UNCHANGED <<fs, made, todo>>
                  /\ Raise(p, e)

\* Line 35, open(out_path, "w"): the file is created or truncated.
OpenOut(p) ==
    /\ pc[p] = "open"
    /\ UNCHANGED <<cwd, file, argv, fs0, args_out, asset_path, css, out_path,
                   todo, stdout, made, nreads, startFs>>
    /\ LET ap == Abs(out_path[p], cwd)
           e == OsOpenWrite(fs, ap)
       IN  IF e # "OK"
           THEN /\ UNCHANGED <<fs, wrote, lastWriter>>
                /\ Raise(p, e)
           ELSE /\ fs' = Put(fs, ap, FileNode(<<>>))
                /\ wrote' = [wrote EXCEPT ![p] = @ \cup {ap}]
                /\ lastWriter' = [q \in DOMAIN lastWriter \cup {ap} |->
                                     IF q = ap THEN p ELSE lastWriter[q]]
                /\ pc' = [pc EXCEPT ![p] = "write"]
                /\ trace' = [trace EXCEPT ![p] = Append(@, "open")]
                /\ UNCHANGED <<stderr, status, outcome, after, order>>

\* Line 35, f.write(css) and the close that flushes it: one write(2) of the
\* encoded text at offset 0, and none when the text is empty.
WriteOut(p) ==
    /\ pc[p] = "write"
    /\ LET ap == Abs(out_path[p], cwd)
           b == TextBytes(css[p])
       IN  IF b = <<>>
           THEN UNCHANGED <<fs, lastWriter>>
           ELSE /\ fs' = Put(fs, ap, FileNode(WriteAt0(fs[ap].data, b)))
                /\ lastWriter' = [lastWriter EXCEPT ![ap] = p]
    /\ pc' = [pc EXCEPT ![p] = "ret"]
    /\ trace' = [trace EXCEPT ![p] = Append(@, "write")]
    /\ UNCHANGED <<cwd, file, argv, fs0, args_out, asset_path, css, out_path, todo,
                   stdout, stderr, status, outcome, made, wrote, nreads,
                   startFs, after, order>>

\* Lines 31 and 36: return 0, and SystemExit(0) of line 40.
Return0(p) ==
    /\ pc[p] = "ret"
    /\ UNCHANGED <<fs, cwd, file, argv, lastWriter, fs0, args_out, asset_path, css,
                   out_path, todo, stdout, made, wrote, nreads, startFs>>
    /\ Exit(p, "SUCCESS", 0, <<>>)

\* No other invocation is running.
Alone(p) == \A q \in Procs \ {p} : pc[q] \in {"start", "done"}

Next ==
    \E p \in Procs :
        \/ ParseArgs(p)
        \/ Resolve(p)
        \/ CheckExists(p)
        \/ ReadAsset(p)
        \/ WriteStdout(p)
        \/ CallMkdir(p)
        \/ Mkdir(p)
        \/ OpenOut(p)
        \/ WriteOut(p)
        \/ Return0(p)

\* Invocations run concurrently.
Spec == Init /\ [][Next]_vars

\* Invocations run one after another.
NextSeq ==
    \E p \in Procs :
        /\ Alone(p)
        /\ \/ ParseArgs(p)
           \/ Resolve(p)
           \/ CheckExists(p)
           \/ ReadAsset(p)
           \/ WriteStdout(p)
           \/ CallMkdir(p)
           \/ Mkdir(p)
           \/ OpenOut(p)
           \/ WriteOut(p)
           \/ Return0(p)

SpecSeq == Init /\ [][NextSeq]_vars

\* ------------------------------------------------------- claim vocabulary
Done(p) == pc[p] = "done"
Parsed(p) == ParseArgv(argv[p])
ToStdout(p) == Parsed(p).ok /\ Parsed(p).out = <<"-">>
ToFile(p) == Parsed(p).ok /\ Parsed(p).out # <<"-">>
\* The location of the destination file of an invocation with ToFile.
Dest(p) == Abs(Path(Parsed(p).out), cwd)
Has(t, x) == \E i \in 1..Len(t) : t[i] = x
IsPrefixOf(s, t) == Len(s) <= Len(t) /\ SubSeq(t, 1, Len(s)) = s

\* The asset is a file of UTF-8 text in filesystem f.
AssetText(f) == IsFile(f, AssetLoc) /\ Utf8Valid(f[AssetLoc].data)
\* Nothing in f keeps a file from being created or replaced at dest.
Writable(f, dest) ==
    /\ ~IsDir(f, dest)
    /\ \A a \in ProperPrefixes(dest) : a \notin DOMAIN f \/ IsDir(f, a)

\* ---------------------------------------------------------------- claims
\* C1: an invocation with destination "-" (default or explicit), run on an
\* asset that is a text file and that nothing changes during the run, writes
\* exactly the bytes of the asset to standard output and exits with 0.
C1_StdoutIsAssetBytes ==
    \A p \in Procs :
        (/\ Done(p) /\ ToStdout(p)
         /\ AssetText(startFs[p])
         /\ after[p][AssetLoc] = startFs[p][AssetLoc])
        => /\ stdout[p] = startFs[p][AssetLoc].data
           /\ status[p] = 0

\* C2: an invocation with a destination path, run on an asset that is a text
\* file and that nothing changes during the run, leaves at the destination a
\* file that holds exactly the bytes of the asset, and exits with 0.
C2_FileIsAssetBytes ==
    \A p \in Procs :
        (/\ Done(p) /\ ToFile(p)
         /\ AssetText(startFs[p])
         /\ after[p][AssetLoc] = startFs[p][AssetLoc]
         /\ Writable(startFs[p], Dest(p)))
        => /\ IsFile(after[p], Dest(p))
           /\ after[p][Dest(p)].data = startFs[p][AssetLoc].data
           /\ status[p] = 0

\* C3: when the existence check finds no asset, whatever the destination,
\* that step ends the run with the diagnostic naming the resolved asset path
\* on the error stream and status 1, and the run has written nothing to
\* standard output, created no directory, written no file, and left the
\* filesystem as it was.
C3_MissingAsset ==
    [][\A p \in Procs :
          (pc[p] = "exists" /\ pc'[p] # "exists" /\ AssetLoc \notin DOMAIN fs)
          => /\ pc'[p] = "done"
             /\ outcome'[p] = "ASSET_MISSING"
             /\ status'[p] = 1
             /\ stderr'[p] = <<[kind |-> "AssetNotFound", path |-> asset_path[p]]>>
             /\ asset_path[p].abs /\ asset_path[p].parts = AssetLoc
             /\ stdout'[p] = <<>>
             /\ made'[p] = {} /\ wrote'[p] = {}
             /\ fs' = fs]_vars

C3_Witness ==
    \E p \in Procs : outcome[p] = "ASSET_MISSING" /\ ToFile(p) /\ fs = fs0

C5_AssetIndependentOfOut ==
    \A p \in Procs :
        /\ (Parsed(p).ok /\ pc[p] \notin {"start", "resolve"})
           => asset_path[p] = [abs |-> TRUE, parts |-> AssetLoc]
        /\ Has(trace[p], "read") => css[p] = ReadText(fs0[AssetLoc].data)
        /\ \A q \in Procs :
              /\ (Has(trace[p], "resolve") /\ Has(trace[q], "resolve"))
                 => asset_path[p] = asset_path[q]
              /\ (Has(trace[p], "read") /\ Has(trace[q], "read")) => css[p] = css[q]

C5_Witness ==
    \E p, q \in Procs :
        /\ Done(p) /\ Done(q) /\ ToFile(p) /\ ToStdout(q)
        /\ Has(trace[p], "read") /\ Has(trace[q], "read")
        /\ css[p] # <<>> /\ wrote[p] # {}

\* C6: an invocation reads the asset at most once and never writes both to
\* standard output and to the filesystem: with destination "-" it creates no
\* directory and opens no file (a file named "-" exists only where an
\* invocation was given a path that names it), and with a path destination
\* it writes nothing to standard output.
C6_OneRead_OneSink ==
    /\ \A p \in Procs :
          /\ nreads[p] <= 1
          /\ ~(Has(trace[p], "stdout") /\
               (Has(trace[p], "mkdir") \/ Has(trace[p], "open") \/ Has(trace[p], "write")))
          /\ ~(stdout[p] # <<>> /\ (made[p] # {} \/ wrote[p] # {}))
          /\ ToStdout(p) => (made[p] = {} /\ wrote[p] = {})
          /\ ToFile(p) => (stdout[p] = <<>> /\ ~Has(trace[p], "stdout"))
          /\ ~Parsed(p).ok => (stdout[p] = <<>> /\ made[p] = {} /\ wrote[p] = {})
    /\ (cwd \o <<"-">>) \in DOMAIN fs
          => \E q \in Procs : ToFile(q) /\ Dest(q) = cwd \o <<"-">> /\ Dest(q) \in wrote[q]

C6_Witness ==
    \E p, q \in Procs :
        /\ Done(p) /\ ToStdout(p) /\ stdout[p] # <<>>
        /\ Done(q) /\ ToFile(q) /\ outcome[q] = "SUCCESS"
        /\ Dest(q) = cwd \o <<"-">>

\* C7: when two invocations with the same destination path run one after the
\* other, the second ends as the first did and leaves the filesystem (the
\* content at the destination and the directories) exactly as the first
\* left it, creating no directory.
C7_Idempotent ==
    (/\ Len(order) = 2
     /\ \A p \in Procs : ToFile(p)
     /\ \A p, q \in Procs : Dest(p) = Dest(q))
    => /\ after[order[2]] = after[order[1]]
       /\ fs = after[order[1]]
       /\ status[order[2]] = status[order[1]]
       /\ made[order[2]] = {}

C7_Witness ==
    /\ Len(order) = 2
    /\ \A p \in Procs : ToFile(p) /\ outcome[p] = "SUCCESS"
    /\ \A p, q \in Procs : Dest(p) = Dest(q)
    /\ made[order[1]] # {}
    /\ fs[Dest(order[1])].data # <<>>
    /\ fs # fs0

\* C8: with the invocations run one after another, an invocation with a
\* destination path, started when the asset is a text file and nothing
\* stands in the way of the destination (no directory at that path, no file
\* among its ancestors), creates exactly the ancestors of the destination
\* that were missing, all of them before it opens the destination, and ends
\* with status 0; this holds when all ancestors exist already, and a second
\* run with the same destination succeeds and creates nothing.
C8_ParentsCreated ==
    /\ \A p \in Procs :
          (/\ ToFile(p) /\ pc[p] # "start"
           /\ AssetText(startFs[p])
           /\ Writable(startFs[p], Dest(p)))
          => /\ Done(p) => (status[p] = 0 /\ IsFile(fs, Dest(p)))
             /\ pc[p] \in {"open", "write", "ret", "done"}
                   => /\ \A a \in ProperPrefixes(Dest(p)) : IsDir(fs, a)
                      /\ made[p] = {a \in ProperPrefixes(Dest(p)) : a \notin DOMAIN startFs[p]}
             /\ wrote[p] # {} => pc[p] \in {"write", "ret", "done"}
    /\ (/\ Len(order) = 2
        /\ \A p \in Procs : ToFile(p)
        /\ \A p, q \in Procs : Dest(p) = Dest(q)
        /\ status[order[1]] = 0)
       => (status[order[2]] = 0 /\ made[order[2]] = {})

C8_Witness ==
    \E p, q \in Procs :
        /\ p # q /\ order = <<p, q>>
        /\ ToFile(p) /\ ToFile(q) /\ Dest(p) = Dest(q)
        /\ status[p] = 0 /\ status[q] = 0
        /\ Cardinality(made[p]) = 2 /\ made[q] = {}

StdoutOrder == <<"parse", "resolve", "exists", "read", "stdout">>
FileOrder == <<"parse", "resolve", "exists", "read", "mkdir", "open", "write">>
\* The steps taken before the exit.
Steps(t) == IF t # <<>> /\ t[Len(t)] = "exit" THEN SubSeq(t, 1, Len(t) - 1) ELSE t

\* C10: the steps of an invocation are a prefix of resolve, check, read,
\* write (to standard output, or mkdir, open, write), then exit, none taken
\* twice; before the read nothing is written to standard output and no
\* directory or file is created; the destination is opened only when the
\* calls of mkdir have returned and its ancestors are directories; status 0
\* is returned only after the write.
C10_StepOrder ==
    \A p \in Procs :
        /\ IsPrefixOf(Steps(trace[p]), StdoutOrder) \/ IsPrefixOf(Steps(trace[p]), FileOrder)
        /\ Has(trace[p], "exit") = Done(p)
        /\ ~Has(Steps(trace[p]), "exit")
        /\ nreads[p] <= 1
        /\ Has(trace[p], "read") => nreads[p] = 1
        /\ nreads[p] = 1 => (Has(trace[p], "exists") /\ AssetLoc \in DOMAIN fs)
        /\ ~Has(trace[p], "read") => (stdout[p] = <<>> /\ made[p] = {} /\ wrote[p] = {})
        /\ made[p] # {} => Has(trace[p], "mkdir")
        /\ wrote[p] # {} =>
              /\ Has(trace[p], "open") /\ todo[p] = <<>>
              /\ \A a \in ProperPrefixes(Dest(p)) : IsDir(fs, a)
        /\ status[p] = 0 => (Has(trace[p], "stdout") \/ Has(trace[p], "write"))
        /\ Has(trace[p], "write") => wrote[p] = {Dest(p)}

C10_Witness ==
    \E p \in Procs : trace[p] = Append(FileOrder, "exit") /\ made[p] # {} /\ status[p] = 0

====
